---- MODULE Spec2Model ----
(***************************************************************************)
(* State-machine model of the task-list component App (src/src/App.tsx,    *)
(* and its theme-less variant src/unnamed/part_000).  One action per event *)
(* handler; every handler runs to completion on the committed React state. *)
(* A text is the sequence of its UTF-16 code units, so that trim() is       *)
(* computed; categories, time labels and theme names are strings.          *)
(***************************************************************************)
EXTENDS Integers, Sequences, FiniteSets, TLC

VARIABLES
    todos,             \* useState<Todo[]>
    inputValue,        \* draft text
    selectedCategory,  \* draft classifier
    selectedTime,      \* draft time
    currentView,       \* 'tasks' | 'calendar'
    theme,             \* useState<Theme>
    localStorage,      \* the browser's key-value store: a function on a subset of {"theme"}
    phase,             \* "render": first render done, startup effect pending; "ready": effect has run
    addOutcome,        \* history: "rejected" / "added" when the last step was an addTodo call, else "none"
    prevTheme,         \* history: the theme the previous session ended with, until this session's first event
    steps              \* history: the number of handler calls and reloads so far

vars == <<todos, inputValue, selectedCategory, selectedTime, currentView,
          theme, localStorage, phase, addOutcome, prevTheme, steps>>

---------------------------------------------------------------------------
(* Bounds of the model *)

MaxSteps == 7

---------------------------------------------------------------------------
(* Data *)

Categories == <<"Health", "Work", "Mental Health", "Others">>

CategorySet == {Categories[i] : i \in 1..Len(Categories)}

Views == {"tasks", "calendar"}

TimeSlots == <<"6:00", "7:00", "8:00", "9:00", "10:00", "11:00", "12:00",
               "13:00", "14:00", "15:00">>

TimeSlotsBasic == <<"6:00", "7:00", "8:00", "9:00", "10:00", "11:00", "12:00">>

SeedTodos ==
    << \* text: 'Drink 8 glasses of water'
       [id |-> 1, completed |-> FALSE, category |-> "Health", time |-> "6:00",
        text |-> <<68, 114, 105, 110, 107, 32, 56, 32, 103, 108, 97, 115,
                 115, 101, 115, 32, 111, 102, 32, 119, 97, 116, 101, 114>>],
       \* text: 'Edit the PDF'
       [id |-> 2, completed |-> FALSE, category |-> "Work", time |-> "",
        text |-> <<69, 100, 105, 116, 32, 116, 104, 101, 32, 80, 68, 70>>],
       \* text: 'Get a notebook'
       [id |-> 3, completed |-> FALSE, category |-> "Mental Health", time |-> "9:00",
        text |-> <<71, 101, 116, 32, 97, 32, 110, 111, 116, 101, 98, 111,
                 111, 107>>],
       \* text: 'Work'
       [id |-> 4, completed |-> FALSE, category |-> "Work", time |-> "10:00",
        text |-> <<87, 111, 114, 107>>] >>

(* Inputs the handlers are driven with *)

(* The code units String.prototype.trim strips: the WhiteSpace and the     *)
(* LineTerminator characters of ECMAScript                                 *)
WhiteSpace ==
    {9, 11, 12, 32, 160, 5760, 8239, 8287, 12288, 65279} \cup (8192..8202)
        \cup {10, 13, 8232, 8233}

(* Values of the text input: empty; no-break space, form feed; space, "a" *)
TextInputs == {<<>>, <<160, 12>>, <<32, 97>>}

(* Value of <input type="time">: empty, or the chosen hour and minute as   *)
(* two digits each                                                         *)
Pad2(n) == IF n < 10 THEN "0" \o ToString(n) ELSE ToString(n)

TimeValue(hour, minute) == Pad2(hour) \o ":" \o Pad2(minute)

PickedTimes == {<<9, 0>>, <<10, 0>>}

TimeInputs == {""} \cup {TimeValue(p[1], p[2]) : p \in PickedTimes}

KeyInputs == {"Enter", "a"}

StoredThemes == {"blue", ""}

InitialStores == {<<>>} \cup {[k \in {"theme"} |-> s] : s \in StoredThemes}

IdInputs == {0} \cup {todos[i].id : i \in 1..Len(todos)}

(* Values Date.now() returns: the wall clock, which may repeat a value,    *)
(* step back, or return the id of a seeded task                            *)
ClockReads == {3, 5, 6}


---------------------------------------------------------------------------
(* Pure helpers *)

RECURSIVE TrimStart(_)
TrimStart(s) ==
    IF s # <<>> /\ Head(s) \in WhiteSpace THEN TrimStart(Tail(s)) ELSE s

RECURSIVE TrimEnd(_)
TrimEnd(s) ==
    IF s # <<>> /\ s[Len(s)] \in WhiteSpace
    THEN TrimEnd(SubSeq(s, 1, Len(s) - 1)) ELSE s

Trim(s) == TrimEnd(TrimStart(s))

(* Mutant: the summary counts only the tasks still open *)
getCategoryInfo_OpenOnly(ts) ==
    [i \in 1..Len(Categories) |->
        LET cat == Categories[i]
            Match(t) == t.category = cat /\ ~t.completed
        IN [name |-> cat, count |-> Len(SelectSeq(ts, Match))]]

getCategoryInfo(ts) ==
    [i \in 1..Len(Categories) |->
        LET cat == Categories[i]
            Match(t) == t.category = cat
        IN [name |-> cat, count |-> Len(SelectSeq(ts, Match))]]

(* Mutant: a zero-padded hour is matched with the unpadded slot label *)
timeEvents_PaddedHour(ts, time) ==
    LET Unpad(x) == IF x = "09:00" THEN "9:00" ELSE x
        Match(t) == Unpad(t.time) = time
    IN SelectSeq(ts, Match)

timeEvents(ts, time) ==
    LET Match(t) == t.time = time IN SelectSeq(ts, Match)

timeline(ts, slots) ==
    [i \in 1..Len(slots) |-> [label |-> slots[i], events |-> timeEvents(ts, slots[i])]]

getItem(store, key) ==
    IF key \in DOMAIN store THEN <<store[key]>> ELSE <<>>

setItem(store, key, value) ==
    [k \in DOMAIN store \cup {key} |-> IF k = key THEN value ELSE store[k]]

Truthy(item) == item # <<>> /\ item[1] # ""

flipTheme(t) == IF t = "light" THEN "dark" ELSE "light"

(* Mutant: the new task ignores the selected category *)
newTodo_DefaultCategory(t) ==
    [id |-> t, text |-> inputValue, completed |-> FALSE,
     category |-> "Health", time |-> selectedTime]

newTodo(t) ==
    [id |-> t, text |-> inputValue, completed |-> FALSE,
     category |-> selectedCategory, time |-> selectedTime]

toggled(ts, id) ==
    [i \in 1..Len(ts) |->
        IF ts[i].id = id THEN [ts[i] EXCEPT !.completed = ~ts[i].completed] ELSE ts[i]]

deleted(ts, id) ==
    LET Keep(t) == t.id # id IN SelectSeq(ts, Keep)

---------------------------------------------------------------------------
(* Initial state: the component after its first render *)

Init ==
    /\ todos = SeedTodos
    /\ inputValue = <<>>
    /\ selectedCategory = "Health"
    /\ selectedTime = ""
    /\ currentView = "tasks"
    /\ theme = "dark"
    /\ localStorage \in InitialStores
    /\ phase = "render"
    /\ addOutcome = "none"
    /\ prevTheme = "none"
    /\ steps = 0

---------------------------------------------------------------------------
(* Handlers *)

(* Mutant: the startup effect reads a key that is never written *)
startupEffect_WrongKey ==
    /\ phase = "render"
    /\ LET savedTheme == getItem(localStorage, "Theme")
       IN theme' = IF Truthy(savedTheme) THEN savedTheme[1] ELSE theme
    /\ phase' = "ready"
    /\ UNCHANGED <<todos, inputValue, selectedCategory, selectedTime, currentView,
                   localStorage, addOutcome, prevTheme, steps>>

startupEffect ==
    /\ phase = "render"
    /\ LET savedTheme == getItem(localStorage, "theme")
       IN theme' = IF Truthy(savedTheme) THEN savedTheme[1] ELSE theme
    /\ phase' = "ready"
    /\ UNCHANGED <<todos, inputValue, selectedCategory, selectedTime, currentView,
                   localStorage, addOutcome, prevTheme, steps>>

toggleTheme ==
    /\ phase = "ready"
    /\ steps < MaxSteps
    /\ steps' = steps + 1
    /\ prevTheme' = "none"
    /\ LET newTheme == flipTheme(theme)
       IN /\ theme' = newTheme
          /\ localStorage' = setItem(localStorage, "theme", newTheme)
    /\ addOutcome' = "none"
    /\ UNCHANGED <<todos, inputValue, selectedCategory, selectedTime, currentView,
                   phase>>

(* Mutant: the draft is tested for emptiness without trimming it *)
addTodoBody_NoTrim(t) ==
    IF inputValue = <<>>
    THEN /\ addOutcome' = "rejected"
         /\ UNCHANGED <<todos, inputValue, selectedTime>>
    ELSE /\ todos' = Append(todos, newTodo(t))
         /\ inputValue' = <<>>
         /\ selectedTime' = ""
         /\ addOutcome' = "added"

(* Mutant: the draft time is not cleared after a successful add *)
addTodoBody_KeepsTime(t) ==
    IF Trim(inputValue) = <<>>
    THEN /\ addOutcome' = "rejected"
         /\ UNCHANGED <<todos, inputValue, selectedTime>>
    ELSE /\ todos' = Append(todos, newTodo(t))
         /\ inputValue' = <<>>
         /\ UNCHANGED selectedTime
         /\ addOutcome' = "added"

addTodoBody(t) ==
    IF Trim(inputValue) = <<>>
    THEN /\ addOutcome' = "rejected"
         /\ UNCHANGED <<todos, inputValue, selectedTime>>
    ELSE /\ todos' = Append(todos, newTodo(t))
         /\ inputValue' = <<>>
         /\ selectedTime' = ""
         /\ addOutcome' = "added"

addTodo(t) ==
    /\ phase = "ready"
    /\ currentView = "tasks"
    /\ steps < MaxSteps
    /\ steps' = steps + 1
    /\ prevTheme' = "none"
    /\ addTodoBody(t)
    /\ UNCHANGED <<selectedCategory, currentView, theme, localStorage, phase>>

handleKeyPress(key, t) ==
    /\ phase = "ready"
    /\ currentView = "tasks"
    /\ steps < MaxSteps
    /\ steps' = steps + 1
    /\ prevTheme' = "none"
    /\ IF key = "Enter" THEN addTodoBody(t)
       ELSE /\ addOutcome' = "none"
            /\ UNCHANGED <<todos, inputValue, selectedTime>>
    /\ UNCHANGED <<selectedCategory, currentView, theme, localStorage, phase>>

toggleTodo(id) ==
    /\ phase = "ready"
    /\ currentView = "tasks"
    /\ steps < MaxSteps
    /\ steps' = steps + 1
    /\ prevTheme' = "none"
    /\ addOutcome' = "none"
    /\ UNCHANGED <<inputValue, selectedCategory, selectedTime, currentView, theme,
                   localStorage, phase>>
    /\ todos' = toggled(todos, id)

deleteTodo(id) ==
    /\ phase = "ready"
    /\ currentView = "tasks"
    /\ steps < MaxSteps
    /\ steps' = steps + 1
    /\ prevTheme' = "none"
    /\ addOutcome' = "none"
    /\ UNCHANGED <<inputValue, selectedCategory, selectedTime, currentView, theme,
                   localStorage, phase>>
    /\ todos' = deleted(todos, id)

setInputValue(value) ==
    /\ phase = "ready"
    /\ currentView = "tasks"
    /\ steps < MaxSteps
    /\ steps' = steps + 1
    /\ prevTheme' = "none"
    /\ inputValue' = value
    /\ addOutcome' = "none"
    /\ UNCHANGED <<todos, selectedCategory, selectedTime, currentView, theme,
                   localStorage, phase>>

setSelectedCategory(value) ==
    /\ phase = "ready"
    /\ currentView = "tasks"
    /\ steps < MaxSteps
    /\ steps' = steps + 1
    /\ prevTheme' = "none"
    /\ selectedCategory' = value
    /\ addOutcome' = "none"
    /\ UNCHANGED <<todos, inputValue, selectedTime, currentView, theme,
                   localStorage, phase>>

setSelectedTime(value) ==
    /\ phase = "ready"
    /\ currentView = "tasks"
    /\ steps < MaxSteps
    /\ steps' = steps + 1
    /\ prevTheme' = "none"
    /\ selectedTime' = value
    /\ addOutcome' = "none"
    /\ UNCHANGED <<todos, inputValue, selectedCategory, currentView, theme,
                   localStorage, phase>>

setCurrentView(view) ==
    /\ phase = "ready"
    /\ steps < MaxSteps
    /\ steps' = steps + 1
    /\ prevTheme' = "none"
    /\ currentView' = view
    /\ addOutcome' = "none"
    /\ UNCHANGED <<todos, inputValue, selectedCategory, selectedTime, theme,
                   localStorage, phase>>

(* Environment: the page is reloaded; only localStorage survives *)

reload ==
    /\ phase = "ready"
    /\ steps < MaxSteps
    /\ steps' = steps + 1
    /\ todos' = SeedTodos
    /\ inputValue' = <<>>
    /\ selectedCategory' = "Health"
    /\ selectedTime' = ""
    /\ currentView' = "tasks"
    /\ theme' = "dark"
    /\ phase' = "render"
    /\ addOutcome' = "none"
    /\ prevTheme' = theme
    /\ UNCHANGED <<localStorage>>

---------------------------------------------------------------------------
(* Specifications *)

Next ==
    \/ startupEffect
    \/ toggleTheme
    \/ \E t \in ClockReads : addTodo(t)
    \/ \E key \in KeyInputs, t \in ClockReads : handleKeyPress(key, t)
    \/ \E id \in IdInputs : toggleTodo(id)
    \/ \E id \in IdInputs : deleteTodo(id)
    \/ \E value \in TextInputs : setInputValue(value)
    \/ \E value \in CategorySet : setSelectedCategory(value)
    \/ \E value \in TimeInputs : setSelectedTime(value)
    \/ \E view \in Views : setCurrentView(view)
    \/ reload

Spec == Init /\ [][Next]_vars

---------------------------------------------------------------------------
(* Vocabulary of the properties, stated without the handlers' helpers *)

IsBlank(s) ==
    \A i \in 1..Len(s) :
        \/ s[i] \in {9, 10, 11, 12, 13, 32, 160, 5760, 8232, 8233, 8239, 8287,
                     12288, 65279}
        \/ s[i] \in 8192..8202

HasId(ts, id) == \E i \in 1..Len(ts) : ts[i].id = id

Changed(ts, us) == {i \in 1..Len(ts) : i > Len(us) \/ us[i] # ts[i]}

WithoutIndex(ts, k) == SubSeq(ts, 1, k - 1) \o SubSeq(ts, k + 1, Len(ts))

AddCalled == addOutcome' # "none"

MatchingIndices(ts, label) == {j \in 1..Len(ts) : ts[j].time = label}

NthOf(S, k) == CHOOSE j \in S : Cardinality({m \in S : m < j}) = k - 1

ListsExactly(evs, ts, label) ==
    \A M \in {MatchingIndices(ts, label)} :
        /\ Len(evs) = Cardinality(M)
        /\ \A k \in 1..Len(evs) : evs[k] = ts[NthOf(M, k)]

TimelineIsExact(tl, ts, slots) ==
    /\ Len(tl) = Len(slots)
    /\ Cardinality({slots[i] : i \in 1..Len(slots)}) = Len(slots)
    /\ \A i \in 1..Len(slots) :
         \A evs \in {tl[i].events} :
             /\ tl[i].label = slots[i]
             /\ ListsExactly(evs, ts, slots[i])
             /\ \A k \in 1..Len(evs) : evs[k].time = slots[i]

EventsUnder(label) ==
    LET tl == timeline(todos, TimeSlots)
        i == CHOOSE n \in 1..Len(TimeSlots) : TimeSlots[n] = label
    IN tl[i].events

StoredTheme == getItem(localStorage, "theme")

---------------------------------------------------------------------------
(* Properties *)

(* C1: in every reachable state no two tasks of the collection have the    *)
(* same id, also when two adds read the same Date.now() value or an add    *)
(* reads the id of a seeded task.                                          *)
C1_UniqueIds ==
    \A i, j \in 1..Len(todos) : i # j => todos[i].id # todos[j].id

(* C2: an add called while the draft text is empty or whitespace-only      *)
(* leaves the task sequence (so its length), the draft fields, the view    *)
(* selector and the theme unchanged, and returns silently.                 *)
C2_BlankAddIsNoOp ==
    [][(AddCalled /\ IsBlank(inputValue)) =>
          /\ addOutcome' = "rejected"
          /\ Len(todos') = Len(todos)
          /\ UNCHANGED <<todos, inputValue, selectedCategory, selectedTime,
                         currentView, theme>>]_vars

C2_Witness ==
    /\ addOutcome = "rejected"
    /\ inputValue = <<160, 12>>
    /\ Len(todos) = Len(SeedTodos) + 1
    /\ selectedCategory = "Work"
    /\ selectedTime = "09:00"

(* C3: an add called with a draft text that is non-empty after trimming    *)
(* appends exactly one task: the old sequence is a prefix, the new last    *)
(* task is not completed and carries the draft classifier and time; the    *)
(* draft text and time are cleared and the draft classifier is kept.       *)
C3_AddAppendsOne ==
    [][(AddCalled /\ ~IsBlank(inputValue)) =>
          /\ addOutcome' = "added"
          /\ Len(todos') = Len(todos) + 1
          /\ SubSeq(todos', 1, Len(todos)) = todos
          /\ todos'[Len(todos')].completed = FALSE
          /\ todos'[Len(todos')].category = selectedCategory
          /\ todos'[Len(todos')].time = selectedTime
          /\ inputValue' = <<>>
          /\ selectedTime' = ""
          /\ selectedCategory' = selectedCategory]_vars

C3_Witness ==
    /\ addOutcome = "added"
    /\ Len(todos) = Len(SeedTodos) + 1
    /\ todos[Len(todos)].category = "Others"
    /\ todos[Len(todos)].time = "09:00"
    /\ ~todos[Len(todos)].completed
    /\ selectedCategory = "Others"
    /\ inputValue = <<>>
    /\ selectedTime = ""

(* C4: after a successful add with classifier c the category summary shows *)
(* the count of c incremented by exactly 1 and every other count unchanged.*)
C4_SummaryAfterAdd ==
    [][(AddCalled /\ ~IsBlank(inputValue)) =>
          \A i \in 1..Len(Categories) :
              getCategoryInfo(todos')[i].count =
                  getCategoryInfo(todos)[i].count
                  + (IF Categories[i] = selectedCategory THEN 1 ELSE 0)]_vars

C4_Witness ==
    /\ addOutcome = "added"
    /\ todos[Len(todos)].category = "Others"
    /\ getCategoryInfo(todos)[4].count = 1
    /\ getCategoryInfo(todos)[2].count = 2

(* C5: a toggle with an id of the collection flips completed on exactly    *)
(* one task, the matching one, and changes nothing else; a toggle with an  *)
(* id matching no task leaves the collection unchanged.                    *)
C5_ToggleFlipsOne ==
    [][\A id \in IdInputs : toggleTodo(id) =>
          /\ Len(todos') = Len(todos)
          /\ IF HasId(todos, id)
             THEN \E k \in 1..Len(todos) :
                     /\ todos[k].id = id
                     /\ Changed(todos, todos') = {k}
                     /\ todos'[k] = [todos[k] EXCEPT !.completed = ~todos[k].completed]
             ELSE todos' = todos]_vars

(* C6: a delete with an id of the collection removes exactly one task, the *)
(* matching one, the others keeping their fields and order; a delete with  *)
(* an id matching no task leaves the collection unchanged.                 *)
C6_DeleteRemovesOne ==
    [][\A id \in IdInputs : deleteTodo(id) =>
          IF HasId(todos, id)
          THEN /\ Len(todos') = Len(todos) - 1
               /\ \E k \in 1..Len(todos) :
                     /\ todos[k].id = id
                     /\ todos' = WithoutIndex(todos, k)
          ELSE todos' = todos]_vars

(* C7: under each slot of the fixed list of time labels the timeline lists *)
(* exactly the tasks whose time equals the label, in collection order.     *)
(* Every listed task carries the label of its slot and the labels differ,  *)
(* so a task whose time is empty or no label is under no slot and no task  *)
(* is under two slots.  A collection of exactly one task, of time "9:00"   *)
(* (the collection an add of such a task to the empty collection gives),   *)
(* has that task listed under "9:00" and nothing under "10:00".  The       *)
(* variant without theme renders the first seven of the ten slots.         *)
C7_TimelineExact ==
    /\ \A tl \in {timeline(todos, TimeSlots)} :
          TimelineIsExact(tl, todos, TimeSlots)
    /\ TimeSlotsBasic = SubSeq(TimeSlots, 1, Len(TimeSlotsBasic))
    /\ (Len(todos) = 1 /\ todos[1].time = "9:00") =>
          /\ EventsUnder("9:00") = <<todos[1]>>
          /\ EventsUnder("10:00") = <<>>

C7_Witness ==
    /\ currentView = "calendar"
    /\ Len(todos) = 1
    /\ todos[1].time = "9:00"
    /\ todos[1].completed

(* C8: a session started with no stored theme shows the default theme;     *)
(* every toggleTheme flips the theme to the other value and stores it; and *)
(* after a reload the startup effect restores the theme that was current   *)
(* when the previous session ended.                                        *)
C8_ThemeRoundTrip ==
    /\ [](phase = "ready" /\ StoredTheme = <<>> => theme = "dark")
    /\ [][(phase = "render" /\ phase' = "ready" /\ prevTheme # "none") =>
             theme' = prevTheme]_vars
    /\ [][toggleTheme =>
             /\ theme' \in {"light", "dark"} \ {theme}
             /\ StoredTheme' = <<theme'>>]_vars

C8_Witness ==
    /\ phase = "ready"
    /\ prevTheme = "light"
    /\ theme = "light"
    /\ StoredTheme = <<"light">>

(* C9: once the startup effect has run, the current theme and the stored   *)
(* value (when present) are each light or dark, whatever the slot held     *)
(* when the session started.                                               *)
C9_ThemeTwoValued ==
    phase = "ready" =>
        /\ theme \in {"light", "dark"}
        /\ StoredTheme # <<>> => StoredTheme[1] \in {"light", "dark"}

(* C10: the category summary has one entry per classifier, in declaration  *)
(* order, its counts sum to the collection length, and a toggle changes no *)
(* count.  A toggle step that changes the collection is not an add call    *)
(* and keeps the length, which is tested first.                            *)
C10_SummaryShape ==
    /\ [](LET info == getCategoryInfo(todos)
          IN /\ [i \in 1..Len(info) |-> info[i].name]
                  = <<"Health", "Work", "Mental Health", "Others">>
             /\ info[1].count + info[2].count + info[3].count + info[4].count
                  = Len(todos))
    /\ [][(/\ addOutcome' = "none"
           /\ Len(todos') = Len(todos)
           /\ todos' # todos
           /\ \E id \in IdInputs : toggleTodo(id)) =>
             getCategoryInfo(todos') = getCategoryInfo(todos)]_vars

C10_Witness ==
    /\ Len(todos) = Len(SeedTodos)
    /\ ~HasId(todos, 1)
    /\ \E i \in 1..Len(todos) : todos[i].completed
    /\ getCategoryInfo(todos)[4].count = 1

====
